---- MODULE Spec2Model ----
(***************************************************************************)
(* Model of the capture loop of rtlamr (recv.go): Receiver.Run and the     *)
(* part of main that surrounds it.  One action per step of the loop; the   *)
(* transport, the decoder, the parser, the log sink and the capture file   *)
(* are the environment and are drawn from small sets.                      *)
(***************************************************************************)
EXTENDS Integers, Sequences, FiniteSets, TLC

\* ------------------------------------------------------------------ bounds
MaxReads == 2       \* reads issued in one run
MaxCands == 2       \* candidate packets the decoder returns for one block
MaxLimit == 2       \* the -duration flag when it is set, in clock ticks
MaxDrops == 1       \* writes to logFile that fail in one run

IDs   == {1, 2}     \* meter ids
Types == {1, 2}     \* meter types

\* ---------------------------------------------------- program constants
BufferLength == 1                   \* rcvr.d.Cfg.BufferLength
BlockSize2   == BufferLength * 2    \* rcvr.d.Cfg.BlockSize2, len(block)

DevNull == "DevNull"                \* os.DevNull
Encoders == {"nil", "xml", "json"}  \* encoder: nil, *xml.Encoder, any other

VARIABLES
    \* flags, fixed before Run starts
    single,         \* *single
    sampleFilename, \* *sampleFilename
    encoder,        \* encoder
    meterID,        \* meterID: the keys of the map
    meterType,      \* meterType: the keys of the map
    timeLimit,      \* *timeLimit
    \* Run
    pc,             \* position in Run / main
    sigint,         \* sigint channel holds a signal
    tLimit,         \* tLimit channel holds the timer's value
    elapsed,        \* time.Since(start)
    reads,          \* calls of rcvr.Read issued
    pkts,           \* rcvr.d.Decode(block) of the current block
    i,              \* index in pkts of the next candidate of the range loop
    pktFound,       \* pktFound
    emitted,        \* indices in pkts of the candidates that reached line 152
    \* sinks
    msgs,           \* every parse.LogMessage built (line 152-156), in order
    logFile,        \* what reached logFile
    sampleFile,     \* bytes of sampleFile, each tagged with the read it is from
    ioErr,          \* writes to logFile whose error was returned and not looked at
    \* process
    exitPath,       \* how the loop ended
    status,         \* exit status of the process, -1 while it runs
    closed,         \* resources closed by main's deferred calls
    printed         \* "Time Limit Reached" lines printed

flagVars == <<single, sampleFilename, encoder, meterID, meterType, timeLimit>>
loopVars == <<pc, reads, pkts, i, pktFound, emitted>>
sinkVars == <<msgs, logFile, sampleFile, ioErr>>
procVars == <<exitPath, status, closed, printed>>
envVars  == <<sigint, tLimit, elapsed>>
vars == <<flagVars, loopVars, sinkVars, procVars, envVars>>

\* ---------------------------------------------------------------- helpers
SeqsUpTo(S, n) == UNION {[1..k -> S] : k \in 0..n}

\* A candidate packet: crc tells whether the parser accepts it.
BadPkt == [crc |-> FALSE, id |-> 1, type |-> 1]
Pkts == {BadPkt, [crc |-> TRUE, id |-> 1, type |-> 2], [crc |-> TRUE, id |-> 2, type |-> 1]}

AllPkts == {BadPkt} \cup {[crc |-> TRUE, id |-> a, type |-> b] : a \in IDs, b \in Types}

\* rcvr.d.Decode(block): the candidates found in the block, in order.
Decode(block) == block

\* rcvr.p.Parse(pkt): a message, or an error.
Parse(pkt) ==
    IF pkt.crc THEN [err |-> FALSE, MeterID |-> pkt.id, MeterType |-> pkt.type]
    ELSE [err |-> TRUE, MeterID |-> 0, MeterType |-> 0]

\* SkipID without its len(meterID) > 0 test: an empty set rejects every id.
SkipIDEmptyRejects(scm) == ~(scm.MeterID \in meterID)

\* Lines 144-150: the two `continue` conditions.
SkipID(scm)   == Cardinality(meterID) > 0 /\ ~(scm.MeterID \in meterID)
SkipType(scm) == Cardinality(meterType) > 0 /\ ~(scm.MeterType \in meterType)

\* Passes without the err # nil test of lines 139-142.
PassesUnparsed(pkt) ==
    LET scm == Parse(pkt)
    IN  ~SkipID(scm) /\ ~SkipType(scm)

\* The candidate reaches line 152.
Passes(pkt) ==
    LET scm == Parse(pkt)
    IN  ~scm.err /\ ~SkipID(scm) /\ ~SkipType(scm)

\* sampleFile.Seek(0, os.SEEK_CUR) on a file created empty and only appended to.
Seek == Len(sampleFile)

\* rcvr.d.IQ of the block that read number n delivered.
IQ(n) == [k \in 1..BlockSize2 |-> n]

\* LogMessage with the offset taken as if the block were already written.
LogMessageOffsetAfter(scm) ==
    [Offset |-> Seek + BlockSize2, Length |-> BufferLength * 2, blk |-> reads]

\* LogMessage with the length left in samples, not doubled to bytes.
LogMessageHalfLength(scm) ==
    [Offset |-> Seek, Length |-> BufferLength, blk |-> reads]

\* parse.LogMessage, lines 152-156; blk: the read the message came with.
LogMessage(scm) ==
    [Offset |-> Seek, Length |-> BufferLength * 2, blk |-> reads]

\* Rendered with the plain-text line always made by String().
RenderedAlwaysOffset(msg, newline) ==
    [form |-> IF encoder = "nil" THEN "String" ELSE encoder,
     Offset |-> msg.Offset, Length |-> msg.Length, blk |-> msg.blk,
     nl |-> IF encoder = "nil" THEN 1
            ELSE (IF encoder = "json" THEN 1 ELSE 0) + (IF newline THEN 1 ELSE 0)]

\* Lines 158-176: what a successful output puts in logFile.
\* form: how the entry is rendered; nl: newlines written after it.
Rendered(msg, newline) ==
    IF encoder = "nil"
    THEN IF sampleFilename = DevNull
         THEN [form |-> "StringNoOffset", Offset |-> -1, Length |-> msg.Length,
               blk |-> msg.blk, nl |-> 1]
         ELSE [form |-> "String", Offset |-> msg.Offset, Length |-> msg.Length,
               blk |-> msg.blk, nl |-> 1]
    ELSE [form |-> encoder, Offset |-> msg.Offset, Length |-> msg.Length,
          blk |-> msg.blk,
          nl |-> (IF encoder = "json" THEN 1 ELSE 0) + (IF newline THEN 1 ELSE 0)]

\* TimerFires with the duration taken for one tick whatever its value.
TimerFiresEarly(d, t) == d # 0 /\ t = 1

\* time.After(*timeLimit), lines 113-116: the timer sends when d has elapsed.
TimerFires(d, t) == d # 0 /\ t = d

Running == pc \in {"select", "read", "range", "post"}

\* log.Fatal: the message is printed and os.Exit(1) ends the process at once;
\* deferred calls are not run and the locals of Run are gone.
Exit(path, code) ==
    /\ pc' = "exited"
    /\ exitPath' = path
    /\ status' = code
    /\ pkts' = <<>> /\ i' = 1 /\ pktFound' = FALSE /\ emitted' = <<>>

\* ------------------------------------------------------------------- Init
Init ==
    /\ single \in BOOLEAN
    /\ sampleFilename \in {DevNull, "samples.bin"}
    /\ encoder \in Encoders
    /\ meterID \in {{}, {1}}
    /\ meterType \in {{}, {2}}
    /\ timeLimit \in {0, MaxLimit}
    /\ pc = "select"
    /\ sigint = FALSE
    /\ tLimit = FALSE
    /\ elapsed = 0
    /\ reads = 0
    /\ pkts = <<>>
    /\ i = 1
    /\ pktFound = FALSE
    /\ emitted = <<>>
    /\ msgs = <<>>
    /\ logFile = <<>>
    /\ sampleFile = <<>>
    /\ ioErr = 0
    /\ exitPath = "none"
    /\ status = -1
    /\ closed = <<>>
    /\ printed = 0

\* ------------------------------------------------------------ environment
\* A SIGINT is delivered: signal.Notify puts it in the channel (capacity 1).
Interrupt ==
    /\ Running
    /\ ~sigint
    /\ sigint' = TRUE
    /\ UNCHANGED <<flagVars, loopVars, sinkVars, procVars, tLimit, elapsed>>

\* The clock advances; the timer of time.After sends when its time has come.
\* Nothing reads the clock once the timer has fired or when none is set.
Tick ==
    /\ Running
    /\ elapsed < timeLimit
    /\ elapsed' = elapsed + 1
    /\ tLimit' = (tLimit \/ TimerFires(timeLimit, elapsed + 1))
    /\ UNCHANGED <<flagVars, loopVars, sinkVars, procVars, sigint>>

\* ------------------------------------------------------------------- Run
\* SelectSigint with the elapsed time printed as on the deadline path.
SelectSigintPrints ==
    /\ pc = "select"
    /\ sigint
    /\ sigint' = FALSE
    /\ printed' = printed + 1
    /\ pc' = "returned"
    /\ exitPath' = "interrupt"
    /\ UNCHANGED <<flagVars, reads, pkts, i, pktFound, emitted, sinkVars,
                   status, closed, tLimit, elapsed>>

\* Line 124: case <-sigint: return
SelectSigint ==
    /\ pc = "select"
    /\ sigint
    /\ sigint' = FALSE
    /\ pc' = "returned"
    /\ exitPath' = "interrupt"
    /\ UNCHANGED <<flagVars, reads, pkts, i, pktFound, emitted, sinkVars,
                   status, closed, printed, tLimit, elapsed>>

\* Lines 126-128: case <-tLimit: print the elapsed time, return
SelectTLimit ==
    /\ pc = "select"
    /\ tLimit
    /\ tLimit' = FALSE
    /\ printed' = printed + 1
    /\ pc' = "returned"
    /\ exitPath' = "deadline"
    /\ UNCHANGED <<flagVars, reads, pkts, i, pktFound, emitted, sinkVars,
                   status, closed, sigint, elapsed>>

\* SelectDefault as if the read came first and the channels were not looked at.
SelectDefaultIgnoresPending ==
    /\ pc = "select"
    /\ reads < MaxReads
    /\ reads' = reads + 1
    /\ pc' = "read"
    /\ UNCHANGED <<flagVars, pkts, i, pktFound, emitted, sinkVars, procVars, envVars>>

\* Lines 129-131: default: no channel is ready, rcvr.Read(block) is called.
SelectDefault ==
    /\ pc = "select"
    /\ ~sigint
    /\ ~tLimit
    /\ reads < MaxReads
    /\ reads' = reads + 1
    /\ pc' = "read"
    /\ UNCHANGED <<flagVars, pkts, i, pktFound, emitted, sinkVars, procVars, envVars>>

\* ReadBlock with the candidates taken last first.
RECURSIVE Reverse(_)
Reverse(q) == IF q = <<>> THEN <<>> ELSE Append(Reverse(Tail(q)), Head(q))

ReadBlockReversed(b) ==
    /\ pc = "read"
    /\ pkts' = Decode(b)
    /\ i' = Len(b)
    /\ pktFound' = FALSE
    /\ emitted' = <<>>
    /\ pc' = "range"
    /\ UNCHANGED <<flagVars, reads, sinkVars, procVars, envVars>>

\* Lines 131, 136-137: the read returns a block whose decoding is b.
ReadBlock(b) ==
    /\ pc = "read"
    /\ pkts' = Decode(b)
    /\ i' = 1
    /\ pktFound' = FALSE
    /\ emitted' = <<>>
    /\ pc' = "range"
    /\ UNCHANGED <<flagVars, reads, sinkVars, procVars, envVars>>

ReadOk == \E b \in SeqsUpTo(Pkts, MaxCands) : ReadBlock(b)

\* The same read on a transport that delivers any message, and on one that
\* delivers nothing the filter lets through.
ReadAny == \E b \in SeqsUpTo(AllPkts, MaxCands) : ReadBlock(b)

ReadNoMatch ==
    \E b \in SeqsUpTo(Pkts, MaxCands) :
        /\ \A j \in DOMAIN b : ~Passes(b[j])
        /\ ReadBlock(b)

\* ReadErr as a loop that tries the read again.
ReadErrRetries ==
    /\ pc = "read"
    /\ pc' = "select"
    /\ UNCHANGED <<flagVars, reads, pkts, i, pktFound, emitted, sinkVars,
                   procVars, envVars>>

\* Lines 132-134: the read fails, log.Fatal: os.Exit(1), deferred calls not run.
ReadErr ==
    /\ pc = "read"
    /\ Exit("readErr", 1)
    /\ UNCHANGED <<flagVars, reads, sinkVars, closed, printed, envVars>>

\* CandSkip with the break of single-shot mode taken on a skipped candidate too.
CandSkipBreaks ==
    /\ pc = "range"
    /\ i <= Len(pkts)
    /\ ~Passes(pkts[i])
    /\ i' = i + 1
    /\ pc' = IF single THEN "post" ELSE pc
    /\ UNCHANGED <<flagVars, reads, pkts, pktFound, emitted, sinkVars, procVars, envVars>>

\* Lines 138-150: the candidate fails to parse or is filtered out: continue.
CandSkip ==
    /\ pc = "range"
    /\ i <= Len(pkts)
    /\ ~Passes(pkts[i])
    /\ i' = i + 1
    /\ UNCHANGED <<flagVars, pc, reads, pkts, pktFound, emitted, sinkVars, procVars, envVars>>

\* Found without the break of lines 179-181.
FoundNoBreak ==
    /\ pktFound' = TRUE
    /\ emitted' = Append(emitted, i)
    /\ i' = i + 1
    /\ pc' = "range"

\* Lines 178-181: pktFound = true; break when *single.
Found ==
    /\ pktFound' = TRUE
    /\ emitted' = Append(emitted, i)
    /\ i' = i + 1
    /\ pc' = IF single THEN "post" ELSE "range"

\* Lines 152-181: the message is accepted and its entry reaches logFile.
CandLog ==
    /\ pc = "range"
    /\ i <= Len(pkts)
    /\ Passes(pkts[i])
    /\ LET msg == LogMessage(Parse(pkts[i]))
       IN  /\ msgs' = Append(msgs, msg)
           /\ logFile' = Append(logFile, Rendered(msg, encoder = "xml"))
    /\ Found
    /\ UNCHANGED <<flagVars, reads, pkts, sampleFile, ioErr, procVars, envVars>>

\* Lines 161, 163, 174: fmt.Fprintln fails; its error is not looked at.
\* Plain text: the line is lost.  XML: the record is there, its newline is not.
CandLogDropped ==
    /\ pc = "range"
    /\ i <= Len(pkts)
    /\ Passes(pkts[i])
    /\ encoder \in {"nil", "xml"}
    /\ ioErr < MaxDrops
    /\ LET msg == LogMessage(Parse(pkts[i]))
       IN  /\ msgs' = Append(msgs, msg)
           /\ logFile' = IF encoder = "nil" THEN logFile
                         ELSE Append(logFile, Rendered(msg, FALSE))
    /\ ioErr' = ioErr + 1
    /\ Found
    /\ UNCHANGED <<flagVars, reads, pkts, sampleFile, procVars, envVars>>

\* Lines 166-169: encoder.Encode fails, log.Fatal.
CandEncodeErr ==
    /\ pc = "range"
    /\ i <= Len(pkts)
    /\ Passes(pkts[i])
    /\ encoder # "nil"
    /\ msgs' = Append(msgs, LogMessage(Parse(pkts[i])))
    /\ Exit("encodeErr", 1)
    /\ UNCHANGED <<flagVars, reads, logFile, sampleFile, ioErr,
                   closed, printed, envVars>>

\* Line 182: the range loop has gone through every candidate.
RangeEnd ==
    /\ pc = "range"
    /\ i > Len(pkts)
    /\ pc' = "post"
    /\ UNCHANGED <<flagVars, reads, pkts, i, pktFound, emitted, sinkVars, procVars, envVars>>

\* CaptureBytes with the write done once for every message of the block.
RECURSIVE Repeat(_, _)
Repeat(bytes, n) == IF n = 0 THEN <<>> ELSE bytes \o Repeat(bytes, n - 1)

CaptureBytesPerMessage ==
    IF sampleFilename # DevNull THEN Repeat(IQ(reads), Len(emitted)) ELSE <<>>

\* CaptureBytes without the pktFound test of line 184.
CaptureBytesAlways ==
    IF sampleFilename # DevNull THEN IQ(reads) ELSE <<>>

\* Lines 184-190: what sampleFile.Write(rcvr.d.IQ) is given for this block.
CaptureBytes ==
    IF pktFound /\ sampleFilename # DevNull THEN IQ(reads) ELSE <<>>

\* PostPc without lines 191-193: the loop goes on after a match.
PostPcNeverReturns == "select"

\* Lines 184, 191-194: return when a packet was found and *single is set.
PostPc == IF pktFound /\ single THEN "returned" ELSE "select"

\* Post with the single-shot return taken before the capture write.
PostReturnsBeforeWrite ==
    /\ pc = "post"
    /\ sampleFile' = sampleFile \o (IF PostPc = "returned" THEN <<>> ELSE CaptureBytes)
    /\ pc' = PostPc
    /\ exitPath' = IF PostPc = "returned" THEN "single" ELSE exitPath
    /\ pkts' = <<>> /\ i' = 1 /\ pktFound' = FALSE /\ emitted' = <<>>
    /\ UNCHANGED <<flagVars, reads, msgs, logFile, ioErr,
                   status, closed, printed, envVars>>

\* Lines 184-195: the capture write, when there is one, succeeds.  The
\* iteration ends and its locals (pkts, pktFound) go out of scope.
Post ==
    /\ pc = "post"
    /\ sampleFile' = sampleFile \o CaptureBytes
    /\ pc' = PostPc
    /\ exitPath' = IF PostPc = "returned" THEN "single" ELSE exitPath
    /\ pkts' = <<>> /\ i' = 1 /\ pktFound' = FALSE /\ emitted' = <<>>
    /\ UNCHANGED <<flagVars, reads, msgs, logFile, ioErr,
                   status, closed, printed, envVars>>

\* Lines 186-189: sampleFile.Write fails after n bytes, log.Fatal.
PostWriteErr ==
    /\ pc = "post"
    /\ pktFound
    /\ sampleFilename # DevNull
    /\ \E n \in 0..(BlockSize2 - 1) :
          sampleFile' = sampleFile \o SubSeq(CaptureBytes, 1, n)
    /\ Exit("captureErr", 1)
    /\ UNCHANGED <<flagVars, reads, msgs, logFile, ioErr,
                   closed, printed, envVars>>

\* ------------------------------------------------------------------ main
\* MainReturn with the close of the capture file and of the transport left out.
MainReturnLeaksOpen ==
    /\ pc = "returned"
    /\ closed' = <<"logFile">>
    /\ status' = 0
    /\ pc' = "exited"
    /\ UNCHANGED <<flagVars, reads, pkts, i, pktFound, emitted, sinkVars,
                   exitPath, printed, envVars>>

\* Lines 214-216, 227: Run returned; the deferred closes run, last first,
\* and the process ends with status 0.
MainReturn ==
    /\ pc = "returned"
    /\ closed' = <<"rcvr", "sampleFile", "logFile">>
    /\ status' = 0
    /\ pc' = "exited"
    /\ UNCHANGED <<flagVars, reads, pkts, i, pktFound, emitted, sinkVars,
                   exitPath, printed, envVars>>

Next ==
    \/ Interrupt
    \/ Tick
    \/ SelectSigint
    \/ SelectTLimit
    \/ SelectDefault
    \/ ReadOk
    \/ ReadErr
    \/ CandSkip
    \/ CandLog
    \/ CandLogDropped
    \/ CandEncodeErr
    \/ RangeEnd
    \/ Post
    \/ PostWriteErr
    \/ MainReturn

Spec == Init /\ [][Next]_vars

\* The filter on its own: every pair of inclusion sets, every message, a
\* transport and sinks that do not fail, no signal and no time limit.
FilterInit ==
    /\ single \in BOOLEAN
    /\ sampleFilename = DevNull
    /\ encoder = "nil"
    /\ meterID \in SUBSET IDs
    /\ meterType \in SUBSET Types
    /\ timeLimit = 0
    /\ pc = "select"
    /\ sigint = FALSE
    /\ tLimit = FALSE
    /\ elapsed = 0
    /\ reads = 0
    /\ pkts = <<>>
    /\ i = 1
    /\ pktFound = FALSE
    /\ emitted = <<>>
    /\ msgs = <<>>
    /\ logFile = <<>>
    /\ sampleFile = <<>>
    /\ ioErr = 0
    /\ exitPath = "none"
    /\ status = -1
    /\ closed = <<>>
    /\ printed = 0

FilterNext ==
    \/ SelectDefault
    \/ ReadAny
    \/ CandSkip
    \/ CandLog
    \/ RangeEnd
    \/ Post
    \/ MainReturn

FilterSpec == FilterInit /\ [][FilterNext]_vars

\* The loop against a transport whose reads always return and never bring a
\* message the filter accepts, with no signal: only the deadline can end it.
\* The goroutine of Run keeps running and time keeps passing.
DeadlineNext ==
    \/ Tick
    \/ SelectTLimit
    \/ SelectDefault
    \/ ReadNoMatch
    \/ CandSkip
    \/ RangeEnd
    \/ Post
    \/ MainReturn

DeadlineSpec ==
    /\ Init
    /\ [][DeadlineNext]_vars
    /\ WF_vars(Tick)
    /\ WF_vars(SelectTLimit \/ SelectDefault \/ ReadNoMatch \/ CandSkip
                \/ RangeEnd \/ Post \/ MainReturn)

TypeOK ==
    /\ pc \in {"select", "read", "range", "post", "returned", "exited"}
    /\ reads \in 0..MaxReads
    /\ status \in {-1, 0, 1}

\* ================================================================ claims
\* Bytes of sampleFile that came with read k, and bytes that came before it.
Count(k)  == Cardinality({p \in DOMAIN sampleFile : sampleFile[p] = k})
Before(k) == Cardinality({p \in DOMAIN sampleFile : sampleFile[p] < k})
MsgsOf(k) == {n \in DOMAIN msgs : msgs[n].blk = k}
LogOf(k)  == {n \in DOMAIN logFile : logFile[n].blk = k}
InBlock   == pc \in {"range", "post"}
Emitted(j) == \E n \in DOMAIN emitted : emitted[n] = j
\* Candidates of the current block the range loop has gone past.
Seen == IF InBlock THEN 1..(i - 1) ELSE {}

\* ---------------------------------------------------------------- C1
\* The predicate of the filter stage as the specification words it.
Accept(scm) ==
    /\ (meterID = {} \/ scm.MeterID \in meterID)
    /\ (meterType = {} \/ scm.MeterType \in meterType)

\* C1: a candidate the loop has gone past got a Log Entry exactly when it
\* parsed and (IDSet is empty or holds its id) and (TypeSet is empty or holds
\* its type); one LogMessage was built for each such candidate.
C1_FilterExact ==
    /\ \A j \in Seen :
          Emitted(j) <=> (~Parse(pkts[j]).err /\ Accept(Parse(pkts[j])))
    /\ InBlock => Cardinality(MsgsOf(reads)) = Len(emitted)

\* A block in which one message was let through and another was filtered out
\* although both inclusion sets are non-empty.
C1_Witness ==
    /\ InBlock
    /\ meterID # {} /\ meterType # {}
    /\ \E j, k \in Seen :
          /\ Emitted(j)
          /\ ~Emitted(k) /\ ~Parse(pkts[k]).err
          /\ Parse(pkts[k]).MeterID \in meterID

\* ---------------------------------------------------------------- C2
\* Block k has been gone through to the end without a fatal error.
Completed(k) ==
    \/ k < reads
    \/ k = reads /\ ~(pc \in {"read", "range", "post"})
                 /\ ~(exitPath \in {"readErr", "encodeErr", "captureErr"})

\* C2: with capture enabled, a block with one or more accepted messages has
\* its bytes in the capture file exactly once when it is completed, whatever
\* the number of messages, and nothing of a block is in the file while its
\* candidates are still being processed.
C2_OneCaptureWrite ==
    \A k \in 1..reads :
        /\ Count(k) <= BlockSize2
        /\ (k = reads /\ pc \in {"read", "range", "post"}) => Count(k) = 0
        /\ (Completed(k) /\ sampleFilename # DevNull /\ MsgsOf(k) # {})
              => Count(k) = BlockSize2

\* A completed block with two accepted messages and one copy of its bytes.
C2_Witness ==
    \E k \in 1..reads :
        /\ Completed(k)
        /\ Cardinality(MsgsOf(k)) >= 2
        /\ Count(k) = BlockSize2

\* ---------------------------------------------------------------- C3
\* C3: the offsets of successive Log Entries never decrease, and the offset
\* of every entry (built or written to the log) is the length the capture
\* file has before the bytes of the entry's block.
C3_OffsetBookkeeping ==
    /\ \A a, b \in DOMAIN msgs : a <= b => msgs[a].Offset <= msgs[b].Offset
    /\ \A n \in DOMAIN msgs : msgs[n].Offset = Before(msgs[n].blk)
    /\ \A n \in DOMAIN logFile :
          logFile[n].form # "StringNoOffset"
            => logFile[n].Offset = Before(logFile[n].blk)

\* Two entries of one block with the same offset after an earlier block was
\* written, so the offset is not zero.
C3_Witness ==
    \E a, b \in DOMAIN msgs :
        /\ a < b
        /\ msgs[a].blk = msgs[b].blk
        /\ msgs[a].Offset = BlockSize2
        /\ Count(msgs[a].blk) = BlockSize2

\* ---------------------------------------------------------------- C4
\* C4: in single-shot mode no read is issued after the block that brought the
\* first accepted message, so the reads number as many as that block; when
\* the loop leaves through the single-shot path the match is in the log
\* (unless its write failed unnoticed), the block is in the capture file when
\* capture is enabled, the status is zero, and from the end of that block the
\* loop goes nowhere but to the return (or to a fatal capture-write error).
C4_SingleShotState ==
    /\ (single /\ msgs # <<>>) => reads = msgs[1].blk
    /\ exitPath = "single" =>
          /\ single
          /\ msgs # <<>> /\ msgs[Len(msgs)].blk = reads
          /\ ioErr = 0 => LogOf(reads) # {}
          /\ sampleFilename # DevNull => Count(reads) = BlockSize2
          /\ pc \in {"returned", "exited"}
          /\ pc = "exited" => status = 0

C4_SingleShot ==
    /\ []C4_SingleShotState
    /\ [][(single /\ pc = "post" /\ pktFound /\ pc' # pc)
            => (reads' = reads
                /\ \/ pc' = "returned" /\ exitPath' = "single"
                   \/ pc' = "exited" /\ exitPath' = "captureErr")]_vars

\* The second block is the first with an accepted message (the first held a
\* candidate that did not get through) and the process has ended through the
\* single-shot path after two reads.
C4_Witness ==
    /\ exitPath = "single" /\ pc = "exited"
    /\ reads = 2
    /\ msgs[1].blk = 2
    /\ sampleFilename # DevNull

\* ---------------------------------------------------------------- C5
\* C5: the loop leaves through the interrupt or deadline path only from the
\* check at its top and without issuing a read or writing anything; when a
\* signal or the timer is pending at that check the loop returns and does not
\* read; while a block is being read or processed a pending signal changes
\* nothing, and when the loop has stopped that way every block that has a
\* Log Entry has its capture bytes.
C5_Cancelled == exitPath \in {"interrupt", "deadline"}

C5_Cooperative ==
    /\ [](C5_Cancelled =>
            /\ pkts = <<>>
            /\ \A k \in 1..reads :
                  (sampleFilename # DevNull /\ MsgsOf(k) # {})
                      => Count(k) = BlockSize2)
    /\ [][(~C5_Cancelled /\ C5_Cancelled')
            => (pc = "select" /\ (sigint \/ tLimit) /\ pc' = "returned"
                /\ UNCHANGED <<reads, sinkVars>>)]_vars
    /\ [][(pc = "select" /\ (sigint \/ tLimit) /\ pc' # pc)
            => (pc' = "returned" /\ C5_Cancelled' /\ reads' = reads)]_vars
    /\ [][(pc \in {"read", "range", "post"} /\ (sigint \/ tLimit))
            => ~C5_Cancelled']_vars

\* A block with an accepted message has been processed to its end while the
\* signal and the timer are both pending.
C5_Witness ==
    /\ pc = "post" /\ pktFound
    /\ sigint /\ tLimit
    /\ ~single

\* ---------------------------------------------------------------- C6
\* C6: against a transport whose reads always return and never bring a
\* match, with a time limit set the loop ends through the deadline path; it
\* takes that path only when the limit is set and has elapsed; once the limit
\* has elapsed no read is issued, so no block but the one in progress is
\* completed; with no limit set the deadline path is never taken.
C6_DeadlineRespected ==
    /\ [](exitPath = "deadline" => (timeLimit # 0 /\ elapsed >= timeLimit))
    /\ [](timeLimit = 0 => (~tLimit /\ exitPath # "deadline"))
    /\ [][(timeLimit # 0 /\ elapsed >= timeLimit) => reads' = reads]_vars
    /\ (timeLimit # 0 => <>(exitPath = "deadline" /\ pc = "exited"))

\* The process has ended through the deadline path, with status 0 and the
\* elapsed time printed, after two blocks were read and completed.
C6_Witness ==
    /\ exitPath = "deadline" /\ pc = "exited"
    /\ reads = 2
    /\ printed = 1
    /\ status = 0

\* ---------------------------------------------------------------- C7
AllFail == pkts # <<>> /\ \A j \in DOMAIN pkts : Parse(pkts[j]).err

\* C7: a block whose candidates all fail parsing gets no Log Entry and no
\* capture write, ends nothing and reports nothing; while it is processed
\* the sinks stay as they are, and from its end the loop goes to the exit
\* check of the next iteration.
C7_RejectionTransparent ==
    /\ []((InBlock /\ AllFail) =>
            /\ ~pktFound /\ emitted = <<>>
            /\ MsgsOf(reads) = {} /\ LogOf(reads) = {} /\ Count(reads) = 0
            /\ exitPath = "none" /\ status = -1)
    /\ [][(InBlock /\ AllFail) =>
            /\ UNCHANGED <<sinkVars, procVars, reads>>
            /\ pc' \in {"range", "post", "select"}
            /\ pc = "post" => pc' \in {"post", "select"}]_vars

\* A block of two unparseable candidates at the end of its processing, in
\* single-shot mode with capture enabled and no filter.
C7_Witness ==
    /\ pc = "post" /\ AllFail /\ Len(pkts) >= 2
    /\ single /\ sampleFilename # DevNull
    /\ meterID = {} /\ meterType = {}

\* ---------------------------------------------------------------- C8
\* C8: a failed read ends the process with status 1 in that very step, with
\* the log and the capture file as they were; nothing of the block is decoded
\* or written, and nothing happens afterwards (no retry, no further read).
C8_ReadErrorFatal ==
    /\ [](exitPath = "readErr" =>
            /\ pc = "exited" /\ status = 1
            /\ pkts = <<>>
            /\ MsgsOf(reads) = {} /\ LogOf(reads) = {} /\ Count(reads) = 0)
    /\ [][(pc = "read" /\ pc' # "read") =>
            \/ pc' = "range" /\ exitPath' = "none"
            \/ pc' = "exited" /\ exitPath' = "readErr" /\ status' = 1
                /\ UNCHANGED <<reads, sinkVars>>]_vars
    /\ [][exitPath = "readErr" => FALSE]_vars

\* The second read failed after a first block that left an entry in the log
\* and its bytes in the capture file.
C8_Witness ==
    /\ exitPath = "readErr"
    /\ reads = 2
    /\ LogOf(1) # {} /\ Count(1) = BlockSize2

\* ---------------------------------------------------------------- C9
\* C9: when the process has ended on a read error, the transport, the capture
\* file and the log sink have been closed by main's deferred calls.
C9_ClosedAfterReadError ==
    (pc = "exited" /\ exitPath = "readErr")
        => closed = <<"rcvr", "sampleFile", "logFile">>

\* ---------------------------------------------------------------- C10
\* C10: whenever a write of a Log Entry to the log sink (text line, record or
\* record separator) or a write to the capture file has failed, the process
\* has ended with a non-zero status.
C10_OutputFailureFatal ==
    (ioErr > 0 \/ exitPath \in {"encodeErr", "captureErr"})
        => (pc = "exited" /\ status = 1)

\* ---------------------------------------------------------------- C11
\* C11: every Log Entry in the log belongs to a message that was built, every
\* message built in the current block belongs to one candidate that parsed
\* and passed the filter, no candidate has two; every byte of the capture
\* file belongs to a block that has such a message, and no block has more
\* than one copy of its bytes in the file.
C11_OutputCorrespondence ==
    /\ \A n \in DOMAIN emitted :
          /\ emitted[n] \in Seen
          /\ ~Parse(pkts[emitted[n]]).err
          /\ Accept(Parse(pkts[emitted[n]]))
          /\ \A m \in DOMAIN emitted : m # n => emitted[m] # emitted[n]
    /\ \A k \in 0..MaxReads + 1 :
          /\ Cardinality(LogOf(k)) <= Cardinality(MsgsOf(k))
          /\ (k < 1 \/ k > reads) => (MsgsOf(k) = {} /\ Count(k) = 0)
          /\ Count(k) > 0 => (MsgsOf(k) # {} /\ Count(k) <= BlockSize2)
    /\ InBlock => Cardinality(MsgsOf(reads)) = Len(emitted)
    /\ Len(logFile) + ioErr >= Len(msgs) - (IF exitPath = "encodeErr" THEN 1 ELSE 0)

\* After a first block that was logged and captured, a second block without
\* an accepted message has been completed and has nothing in either sink.
C11_Witness ==
    /\ reads = 2 /\ pc = "select"
    /\ sampleFilename # DevNull
    /\ LogOf(1) # {} /\ Count(1) = BlockSize2
    /\ MsgsOf(2) = {} /\ LogOf(2) = {} /\ Count(2) = 0

\* ---------------------------------------------------------------- C12
C12_NonFatal == exitPath \in {"interrupt", "deadline", "single"}
C12_AllClosed ==
    /\ Len(closed) = 3
    /\ {closed[n] : n \in DOMAIN closed} = {"rcvr", "sampleFile", "logFile"}

\* C12: when the loop stops on interrupt, deadline or single-shot match, Run
\* returns to main; from then on no read is issued and nothing is written to
\* the log or the capture file, what was written stays as it is, the only
\* step left closes the transport, the capture file and the log sink, each
\* once, and ends the process with status 0.
C12_CleanShutdown ==
    /\ [](C12_NonFatal =>
            /\ pc \in {"returned", "exited"}
            /\ pc = "returned" => (closed = <<>> /\ status = -1)
            /\ pc = "exited" => (C12_AllClosed /\ status = 0))
    /\ [][(~C12_NonFatal /\ C12_NonFatal') =>
            /\ pc' = "returned"
            /\ UNCHANGED <<reads, msgs, logFile, ioErr>>
            /\ SubSeq(sampleFile', 1, Len(sampleFile)) = sampleFile]_vars
    /\ [][C12_NonFatal =>
            /\ pc = "returned" /\ pc' = "exited"
            /\ UNCHANGED <<reads, sinkVars, exitPath>>]_vars

\* The process has ended after an interrupt, with entries in the log and
\* bytes in the capture file.
C12_Witness ==
    /\ pc = "exited" /\ exitPath = "interrupt"
    /\ logFile # <<>> /\ sampleFile # <<>>
    /\ C12_AllClosed

\* ---------------------------------------------------------------- C13
\* Candidate j of the current block parses and passes the filter.
Good(j) == ~Parse(pkts[j]).err /\ Accept(Parse(pkts[j]))

\* C13 as stated: in single-shot mode, when the candidate processing of a
\* block is over, every candidate of the block has been gone through and
\* every one that parses and passes the filter has its Log Entry.
C13_AllCandidatesProcessed ==
    (single /\ pc = "post") =>
        /\ i = Len(pkts) + 1
        /\ \A j \in DOMAIN pkts : Good(j) => Emitted(j)

\* C13 amended: in single-shot mode, when the candidate processing of a
\* block is over, the candidates up to the first one that parses and passes
\* the filter have been gone through as in normal mode and that one alone
\* has its Log Entry; a block without such a candidate has been gone through
\* to its end; and no new iteration begins once a message was accepted.
C13_UpToFirstAccepted ==
    /\ (single /\ pc = "post") =>
          /\ \A j \in DOMAIN pkts :
                Emitted(j) <=> (Good(j) /\ \A m \in 1..(j - 1) : ~Good(m))
          /\ \A j \in DOMAIN pkts :
                j \in Seen <=> (\A m \in 1..(j - 1) : ~Good(m))
    /\ (single /\ pc \in {"select", "read", "range"}) => MsgsOf(reads) = {}
    /\ (single /\ pc \in {"select", "read"}) => msgs = <<>>

\* Single-shot mode, processing of a block over: a skipped candidate, then
\* the accepted one.
C13_Witness ==
    /\ single /\ pc = "post" /\ pktFound
    /\ Len(pkts) = 2
    /\ ~Good(1) /\ Good(2) /\ Emitted(2)

\* ---------------------------------------------------------------- C14
\* C14: in single-shot mode a run builds and logs one Log Entry at most;
\* the range loop is left at the first accepted message, with the candidates
\* after it not gone through, and the step that follows returns from the
\* loop with the block's bytes written when capture is enabled.
C14_SingleEntry ==
    /\ [](single =>
            /\ Len(msgs) <= 1 /\ Len(logFile) <= 1 /\ Len(emitted) <= 1
            /\ (pc = "post" /\ pktFound) =>
                  (emitted = <<i - 1>> /\ Seen = 1..emitted[1])
            /\ (pc = "range") => ~pktFound)
    /\ [][(single /\ pc = "range" /\ pktFound') => pc' = "post"]_vars
    /\ [][(single /\ pc = "post" /\ pktFound /\ pc' = "returned") =>
            sampleFile' = sampleFile \o
                (IF sampleFilename # DevNull THEN IQ(reads) ELSE <<>>)]_vars

\* Single-shot mode: the loop was left at the first candidate and the second,
\* which the filter would let through as well, was not gone through.
C14_Witness ==
    /\ single /\ pc = "post" /\ pktFound
    /\ i = 2 /\ Len(pkts) = 2
    /\ Good(2)

\* ---------------------------------------------------------------- C15
\* The read tags of q never decrease along q.
Ordered(q) == \A a, b \in DOMAIN q : a <= b => q[a] <= q[b]

\* C15: the range loop starts at the first candidate and goes through the
\* candidates one by one in the decoder's order; the entries of the log and
\* the bytes of the capture file follow the order of the reads; nothing of a
\* block is appended to the capture file while its candidates are processed,
\* the append changes no log entry, and a read is issued only from the exit
\* check, with no block in progress and every captured block written in full.
C15_Sequential ==
    /\ [](/\ Ordered(emitted)
          /\ Ordered([n \in DOMAIN msgs |-> msgs[n].blk])
          /\ Ordered([n \in DOMAIN logFile |-> logFile[n].blk])
          /\ Ordered(sampleFile)
          /\ pc = "range" => i \in 1..(Len(pkts) + 1))
    /\ [][(pc = "read" /\ pc' = "range") => i' = 1]_vars
    /\ [][(pc = "range" /\ InBlock') =>
            /\ i' \in {i, i + 1}
            /\ pkts' = pkts
            /\ sampleFile' = sampleFile
            /\ msgs' # msgs => (i' = i + 1 /\ emitted' = Append(emitted, i))]_vars
    /\ [][sampleFile' # sampleFile =>
            (pc = "post" /\ pktFound /\ UNCHANGED <<msgs, logFile, reads>>)]_vars
    /\ [][reads' # reads =>
            /\ pc = "select" /\ pc' = "read" /\ reads' = reads + 1
            /\ pkts = <<>>
            /\ \A k \in 1..reads : Count(k) \in {0, BlockSize2}]_vars

\* The second block is being processed, two of its candidates logged in the
\* decoder's order, after the first block was logged and captured.
C15_Witness ==
    /\ reads = 2 /\ pc = "range"
    /\ emitted = <<1, 2>>
    /\ LogOf(1) # {} /\ Count(1) = BlockSize2
    /\ Cardinality(LogOf(2)) = 2 /\ Count(2) = 0

\* ---------------------------------------------------------------- C16
\* C16: when the capture path is the null path nothing is ever written to
\* the capture file and its position stays at zero, accepted messages still
\* get their Log Entry, and a plain-text entry has no offset field; when
\* capture is enabled a plain-text entry carries the offset of its message.
C16_CaptureDisabled ==
    /\ sampleFilename = DevNull =>
          /\ sampleFile = <<>>
          /\ Seek = 0
          /\ \A n \in DOMAIN msgs : msgs[n].Offset = 0
          /\ Len(logFile) >= Len(msgs) - ioErr
                               - (IF exitPath = "encodeErr" THEN 1 ELSE 0)
          /\ encoder = "nil" =>
                \A n \in DOMAIN logFile :
                    logFile[n].form = "StringNoOffset" /\ logFile[n].Offset = -1
    /\ (sampleFilename # DevNull /\ encoder = "nil") =>
          \A n \in DOMAIN logFile :
              /\ logFile[n].form = "String"
              /\ \E m \in DOMAIN msgs :
                    /\ msgs[m].blk = logFile[n].blk
                    /\ msgs[m].Offset = logFile[n].Offset
                    /\ msgs[m].Offset = Before(msgs[m].blk)

\* Capture disabled, plain text: two blocks matched and were logged.
C16_Witness ==
    /\ sampleFilename = DevNull /\ encoder = "nil"
    /\ reads = 2 /\ pc = "post" /\ pktFound
    /\ LogOf(1) # {} /\ LogOf(2) # {}

C18_RecordSeparation ==
    encoder # "nil" => \A n \in DOMAIN logFile : logFile[n].nl = 1

\* ---------------------------------------------------------------- C19
\* The exit paths on which Run returns to main.
ZeroPaths == {"interrupt", "deadline", "single"}

\* C19: the elapsed-time report is printed exactly once on the deadline
\* path and never on another; the interrupt, deadline and single-shot exits
\* end with status zero, the fatal read, output and capture errors with a
\* non-zero status; no status exists before the process has ended.
C19_ExitReporting ==
    /\ printed = (IF exitPath = "deadline" THEN 1 ELSE 0)
    /\ pc = "exited" =>
          /\ exitPath # "none"
          /\ exitPath \in ZeroPaths => status = 0
          /\ exitPath \notin ZeroPaths => status > 0
    /\ pc # "exited" => status = -1
    /\ pc = "returned" => exitPath \in ZeroPaths
    /\ pc \notin {"returned", "exited"} => exitPath = "none"

\* The process has ended through the deadline after a block was logged.
C19_Witness ==
    /\ pc = "exited" /\ exitPath = "deadline"
    /\ printed = 1 /\ status = 0
    /\ logFile # <<>>

\* ---------------------------------------------------------------- C20
\* Block k has a Log Entry and its bytes are in the capture file in full, at
\* the offset its entries give.
Aligned(k) ==
    /\ Count(k) = BlockSize2
    /\ \A n \in LogOf(k) :
          logFile[n].Offset + logFile[n].Length <= Len(sampleFile)

\* C20 as stated: with capture enabled, when the process has ended by any
\* path, a fatal error while a block is processed included, every block
\* with a Log Entry has its bytes in the capture file.
C20_AlignedOnEveryPath ==
    (pc = "exited" /\ sampleFilename # DevNull) =>
        \A k \in 1..reads : LogOf(k) # {} => Aligned(k)

\* C20 amended: with capture enabled, when Run has returned or the process
\* has ended, every block with a Log Entry has its bytes in the capture
\* file, but for the block that was being processed when a fatal output or
\* capture-write error ended the process.
C20_AlignedButFatalBlock ==
    (pc \in {"returned", "exited"} /\ sampleFilename # DevNull) =>
        \A k \in 1..reads :
            (LogOf(k) # {} /\ ~(exitPath \in {"encodeErr", "captureErr"} /\ k = reads))
            => Aligned(k)

\* The process has ended on an interrupt after two blocks were logged and
\* captured.
C20_Witness ==
    /\ pc = "exited" /\ exitPath = "interrupt"
    /\ sampleFilename # DevNull
    /\ LogOf(1) # {} /\ Count(1) = BlockSize2
    /\ LogOf(2) # {} /\ Count(2) = BlockSize2
====
